---- MODULE Spec2Model ----
(***************************************************************************)
(* Model of the gully-cricket scoring service (src/main.py).               *)
(*                                                                         *)
(* The five SQLite tables are sequences of rows; a row's id is its index   *)
(* (INTEGER PRIMARY KEY AUTOINCREMENT, no row is ever deleted).  Every     *)
(* endpoint is one action: the handler runs on its own connection and its  *)
(* writes become visible at conn.commit(); a handler that raises before    *)
(* commit leaves the tables as they were.  "None" stands for Python None / *)
(* SQL NULL.                                                               *)
(*                                                                         *)
(* SpecWorkers runs the handlers in several server workers at once.  The   *)
(* handlers take no lock of their own; what SQLite gives them is: a SELECT *)
(* outside a transaction sees the last committed tables, and from a        *)
(* connection's first INSERT/UPDATE to its commit no other connection can  *)
(* write.  There a handler is one step per SELECT and one step for its     *)
(* writes, and calls holds what each worker's handler has read so far.     *)
(***************************************************************************)
EXTENDS Integers, Sequences, FiniteSets, TLC

VARIABLES matches, innings, batsmen, bowlers, balls, response, calls

vars == <<matches, innings, batsmen, bowlers, balls, response, calls>>
db == <<matches, innings, batsmen, bowlers, balls>>

None == "None"

(* ------------------------------ bounds -------------------------------- *)
MaxMatches == 1
MaxBatsmen == 2
MaxBowlers == 2
MaxBalls == 2
MaxOverBalls == 7
MaxWorkers == 2
MaxWorkerBalls == 6

(* ------------------------------ inputs -------------------------------- *)
Team1s == {"A"}
Team2s == {"B"}
Winners == {"A"}
Names == {"X"}
OversChoices == {20}
Runs == {-1, 1, 4, 6}
WicketTypes == {None, "bowled"}
\* "wide"/"nb" are the scorer's tags for wides and no-balls, "b"/"lb" for
\* byes and leg-byes; extra_type is Optional[str], so None is accepted too.
ExtraTypes == {None, "wide", "nb", "b", "lb"}

\* wicket_type is read only when is_wicket is set, so it is left None otherwise.
BallUpdate ==
    {ball \in [runs : Runs, is_wicket : BOOLEAN, wicket_type : WicketTypes,
               is_extra : BOOLEAN, extra_type : ExtraTypes] :
        ~ball.is_wicket => ball.wicket_type = None}

\* The outcomes used where calls range over every identifier.
SampleBalls ==
    {ball \in BallUpdate :
        /\ ball.runs \in {1, 4}
        /\ ball.wicket_type = (IF ball.is_wicket THEN "bowled" ELSE None)
        /\ <<ball.is_extra, ball.extra_type>> \in
              {<<FALSE, None>>, <<TRUE, "wide">>, <<TRUE, "b">>}}

\* The outcomes used where an innings runs past the end of an over: a single
\* off the bat and a wide.
OverBalls ==
    {ball \in BallUpdate :
        /\ ball.runs = 1
        /\ ~ball.is_wicket
        /\ <<ball.is_extra, ball.extra_type>> \in
              {<<FALSE, None>>, <<TRUE, "wide">>}}

(* --------------------------- row constructors -------------------------- *)
MatchRow(team1, team2, overs) ==
    [team1 |-> team1, team2 |-> team2, overs |-> overs,
     current_inning |-> 1, status |-> "in_progress", winner |-> None]

InningRow(match_id, inning_number, batting_team, bowling_team) ==
    [match_id |-> match_id, inning_number |-> inning_number,
     batting_team |-> batting_team, bowling_team |-> bowling_team,
     total_runs |-> 0, total_wickets |-> 0, total_balls |-> 0, extras |-> 0]

BatsmanRow(inning_id, name, is_striker) ==
    [inning_id |-> inning_id, name |-> name, runs |-> 0, balls |-> 0,
     fours |-> 0, sixes |-> 0, is_out |-> FALSE, out_type |-> None,
     is_striker |-> is_striker]

BowlerRow(inning_id, name, is_current) ==
    [inning_id |-> inning_id, name |-> name, overs |-> 0, balls |-> 0,
     runs_given |-> 0, wickets |-> 0, maidens |-> 0, is_current |-> is_current]

BallRow(inning_id, over_number, ball_number, ball, batsman_id, bowler_id) ==
    [inning_id |-> inning_id, over_number |-> over_number,
     ball_number |-> ball_number, runs |-> ball.runs,
     is_wicket |-> ball.is_wicket, is_extra |-> ball.is_extra,
     extra_type |-> ball.extra_type, batsman_id |-> batsman_id,
     bowler_id |-> bowler_id]

Response(op, id, status, detail) ==
    [op |-> op, id |-> id, status |-> status, detail |-> detail]

\* The local variables of a handler that is between two statements: pc is
\* the statement it executes next, id its path parameter, ball its body,
\* inning the fetched innings row (its total_balls; no element for None),
\* inning_id the fetched batsman['inning_id'], striker and bowler the ['id']
\* of the fetched rows, bowler_balls the fetched bowler['balls'].
Call(pc, id, ball, inning, inning_id, striker, bowler, bowler_balls) ==
    [pc |-> pc, id |-> id, ball |-> ball, inning |-> inning,
     inning_id |-> inning_id, striker |-> striker, bowler |-> bowler,
     bowler_balls |-> bowler_balls]

NoBall ==
    [runs |-> 0, is_wicket |-> FALSE, wicket_type |-> None,
     is_extra |-> FALSE, extra_type |-> None]

Idle == Call("idle", 0, NoBall, <<>>, 0, 0, 0, 0)

Workers == 1 .. MaxWorkers

(* ------------------------------- Init ---------------------------------- *)
Init ==
    /\ calls = [w \in Workers |-> Idle]
    /\ matches = <<>>
    /\ innings = <<>>
    /\ batsmen = <<>>
    /\ bowlers = <<>>
    /\ balls = <<>>
    /\ response = Response("init_db", 0, 200, None)

(* ------------------------- identifier arguments ------------------------ *)
\* Path parameters are arbitrary integers: every existing id and one that
\* does not exist.
MatchIds == 1 .. (Len(matches) + 1)
InningIds == 1 .. (Len(innings) + 1)
BatsmanIds == 1 .. (Len(batsmen) + 1)

(* ---------------------------- create_match ----------------------------- *)
create_match(team1, team2, overs) ==
    /\ matches' = Append(matches, MatchRow(team1, team2, overs))
    /\ innings' = Append(innings, InningRow(Len(matches) + 1, 1, team1, team2))
    /\ response' = Response("create_match", Len(matches) + 1, 200,
                            "Match created successfully")
    /\ UNCHANGED <<batsmen, bowlers, balls>>

(* ----------------------------- add_batsman ----------------------------- *)
ClearStrikers_Keeps(inning_id) == batsmen

ClearStrikers_EveryInning(inning_id) ==
    [k \in DOMAIN batsmen |-> [batsmen[k] EXCEPT !.is_striker = FALSE]]

ClearStrikers(inning_id) ==
    [k \in DOMAIN batsmen |->
        IF batsmen[k].inning_id = inning_id
        THEN [batsmen[k] EXCEPT !.is_striker = FALSE]
        ELSE batsmen[k]]

add_batsman(inning_id, name, is_striker) ==
    /\ batsmen' = Append(IF is_striker THEN ClearStrikers(inning_id) ELSE batsmen,
                         BatsmanRow(inning_id, name, is_striker))
    /\ response' = Response("add_batsman", inning_id, 200,
                            "Batsman added successfully")
    /\ UNCHANGED <<matches, innings, bowlers, balls>>

(* ------------------------------ add_bowler ----------------------------- *)
ClearCurrent_Keeps(inning_id) == bowlers

ClearCurrent(inning_id) ==
    [k \in DOMAIN bowlers |->
        IF bowlers[k].inning_id = inning_id
        THEN [bowlers[k] EXCEPT !.is_current = FALSE]
        ELSE bowlers[k]]

add_bowler(inning_id, name) ==
    /\ bowlers' = Append(ClearCurrent(inning_id), BowlerRow(inning_id, name, TRUE))
    /\ response' = Response("add_bowler", inning_id, 200,
                            "Bowler added successfully")
    /\ UNCHANGED <<matches, innings, batsmen, balls>>

(* ------------------------------- add_ball ------------------------------ *)
\* SELECT ... WHERE inning_id = ? AND is_striker = 1 / is_current = 1
Strikers_AnyBatsman(inning_id) ==
    {k \in DOMAIN batsmen : batsmen[k].inning_id = inning_id}

Strikers_AnyInning(inning_id) ==
    {k \in DOMAIN batsmen : batsmen[k].is_striker}

Strikers(inning_id) ==
    {k \in DOMAIN batsmen :
        batsmen[k].inning_id = inning_id /\ batsmen[k].is_striker}

CurrentBowlers(inning_id) ==
    {k \in DOMAIN bowlers :
        bowlers[k].inning_id = inning_id /\ bowlers[k].is_current}

OverNumber(total_balls) == total_balls \div 6

BallNumber_FromOne(total_balls) == (total_balls % 6) + 1

BallNumber(total_balls) == total_balls % 6

\* The same test is written three times in the handler, once per table.
BatsmanFacesBall_SkipsByes(ball) == ~ball.is_extra

BatsmanFacesBall(ball) == ~ball.is_extra \/ ball.extra_type \in {"lb", "b"}

BowlerBowlsBall(ball) == ~ball.is_extra \/ ball.extra_type \in {"lb", "b"}

InningCountsBall_Every(ball) == TRUE

InningCountsBall_SkipsByes(ball) == ~ball.is_extra

InningCountsBall(ball) == ~ball.is_extra \/ ball.extra_type \in {"lb", "b"}

StrikerAfterBall_FourOrMore(b, ball) ==
    [b EXCEPT
        !.balls = IF BatsmanFacesBall(ball) THEN @ + 1 ELSE @,
        !.runs = IF ~ball.is_extra THEN @ + ball.runs ELSE @,
        !.fours = IF ~ball.is_extra /\ ball.runs >= 4 THEN @ + 1 ELSE @,
        !.sixes = IF ~ball.is_extra /\ ball.runs = 6 THEN @ + 1 ELSE @,
        !.is_out = IF ball.is_wicket THEN TRUE ELSE @,
        !.out_type = IF ball.is_wicket THEN ball.wicket_type ELSE @]

StrikerAfterBall(b, ball) ==
    [b EXCEPT
        !.balls = IF BatsmanFacesBall(ball) THEN @ + 1 ELSE @,
        !.runs = IF ~ball.is_extra THEN @ + ball.runs ELSE @,
        !.fours = IF ~ball.is_extra /\ ball.runs = 4 THEN @ + 1 ELSE @,
        !.sixes = IF ~ball.is_extra /\ ball.runs # 4 /\ ball.runs = 6
                  THEN @ + 1 ELSE @,
        !.is_out = IF ball.is_wicket THEN TRUE ELSE @,
        !.out_type = IF ball.is_wicket THEN ball.wicket_type ELSE @]

BowlerAfterBall_NoWicketOnExtra(w, ball) ==
    [w EXCEPT
        !.balls = IF BowlerBowlsBall(ball) THEN @ + 1 ELSE @,
        !.overs = IF BowlerBowlsBall(ball) THEN (w.balls + 1) \div 6 ELSE @,
        !.runs_given = @ + ball.runs,
        !.wickets = IF ball.is_wicket /\ ~ball.is_extra THEN @ + 1 ELSE @]

BowlerAfterBall_OversBeforeBall(w, ball) ==
    [w EXCEPT
        !.balls = IF BowlerBowlsBall(ball) THEN @ + 1 ELSE @,
        !.overs = IF BowlerBowlsBall(ball) THEN w.balls \div 6 ELSE @,
        !.runs_given = @ + ball.runs,
        !.wickets = IF ball.is_wicket THEN @ + 1 ELSE @]

BowlerAfterBall_NoByeRuns(w, ball) ==
    [w EXCEPT
        !.balls = IF BowlerBowlsBall(ball) THEN @ + 1 ELSE @,
        !.overs = IF BowlerBowlsBall(ball) THEN (w.balls + 1) \div 6 ELSE @,
        !.runs_given = IF ball.is_extra /\ ball.extra_type \in {"lb", "b"}
                       THEN @ ELSE @ + ball.runs,
        !.wickets = IF ball.is_wicket THEN @ + 1 ELSE @]

\* new_balls is computed from the row read at the top of the handler.
BowlerAfterBall(w, ball) ==
    [w EXCEPT
        !.balls = IF BowlerBowlsBall(ball) THEN @ + 1 ELSE @,
        !.overs = IF BowlerBowlsBall(ball) THEN (w.balls + 1) \div 6 ELSE @,
        !.runs_given = @ + ball.runs,
        !.wickets = IF ball.is_wicket THEN @ + 1 ELSE @]

InningAfterBall_ExtrasNeedType(inning, ball) ==
    [inning EXCEPT
        !.total_balls = IF InningCountsBall(ball) THEN @ + 1 ELSE @,
        !.total_runs = @ + ball.runs,
        !.extras = IF ball.is_extra /\ ball.extra_type # None
                   THEN @ + ball.runs ELSE @,
        !.total_wickets = IF ball.is_wicket THEN @ + 1 ELSE @]

InningAfterBall(inning, ball) ==
    [inning EXCEPT
        !.total_balls = IF InningCountsBall(ball) THEN @ + 1 ELSE @,
        !.total_runs = @ + ball.runs,
        !.extras = IF ball.is_extra THEN @ + ball.runs ELSE @,
        !.total_wickets = IF ball.is_wicket THEN @ + 1 ELSE @]

add_ball(inning_id, ball) ==
    IF Strikers(inning_id) = {}
    THEN /\ response' = Response("add_ball", inning_id, 400,
                                 "No striker batsman found")
         /\ UNCHANGED db
    ELSE IF CurrentBowlers(inning_id) = {}
    THEN /\ response' = Response("add_ball", inning_id, 400,
                                 "No current bowler found")
         /\ UNCHANGED db
    ELSE IF inning_id \notin DOMAIN innings
    THEN \* inning is None: inning['total_balls'] raises TypeError
         /\ response' = Response("add_ball", inning_id, 500,
                                 "Internal Server Error")
         /\ UNCHANGED db
    ELSE \E striker \in Strikers(inning_id), bowler \in CurrentBowlers(inning_id) :
         LET total_balls == innings[inning_id].total_balls IN
         /\ balls' = Append(balls,
                BallRow(inning_id, OverNumber(total_balls),
                        BallNumber(total_balls), ball, striker, bowler))
         /\ batsmen' = [batsmen EXCEPT
                ![striker] = StrikerAfterBall(batsmen[striker], ball)]
         /\ bowlers' = [bowlers EXCEPT
                ![bowler] = BowlerAfterBall(bowlers[bowler], ball)]
         /\ innings' = [innings EXCEPT
                ![inning_id] = InningAfterBall(innings[inning_id], ball)]
         /\ response' = Response("add_ball", inning_id, 200,
                                 "Ball recorded successfully")
         /\ UNCHANGED matches

(* ---------------------------- toggle_striker --------------------------- *)
toggle_striker(batsman_id) ==
    IF batsman_id \notin DOMAIN batsmen
    THEN /\ response' = Response("toggle_striker", batsman_id, 404,
                                 "Batsman not found")
         /\ UNCHANGED db
    ELSE /\ batsmen' = [ClearStrikers(batsmen[batsman_id].inning_id) EXCEPT
                ![batsman_id].is_striker = TRUE]
         /\ response' = Response("toggle_striker", batsman_id, 200,
                                 "Striker updated")
         /\ UNCHANGED <<matches, innings, bowlers, balls>>

(* ------------------------------ next_inning ---------------------------- *)
next_inning_AfterTwo(match_id) ==
    IF match_id \notin DOMAIN matches
    THEN /\ response' = Response("next_inning", match_id, 404, "Match not found")
         /\ UNCHANGED db
    ELSE IF matches[match_id].current_inning > 2
    THEN /\ response' = Response("next_inning", match_id, 400,
                                 "Match already has 2 innings")
         /\ UNCHANGED db
    ELSE /\ innings' = Append(innings,
                InningRow(match_id, 2, matches[match_id].team2,
                          matches[match_id].team1))
         /\ matches' = [matches EXCEPT ![match_id].current_inning = 2]
         /\ response' = Response("next_inning", match_id, 200,
                                 "Second inning started")
         /\ UNCHANGED <<batsmen, bowlers, balls>>

next_inning(match_id) ==
    IF match_id \notin DOMAIN matches
    THEN /\ response' = Response("next_inning", match_id, 404, "Match not found")
         /\ UNCHANGED db
    ELSE IF matches[match_id].current_inning >= 2
    THEN /\ response' = Response("next_inning", match_id, 400,
                                 "Match already has 2 innings")
         /\ UNCHANGED db
    ELSE /\ innings' = Append(innings,
                InningRow(match_id, 2, matches[match_id].team2,
                          matches[match_id].team1))
         /\ matches' = [matches EXCEPT ![match_id].current_inning = 2]
         /\ response' = Response("next_inning", match_id, 200,
                                 "Second inning started")
         /\ UNCHANGED <<batsmen, bowlers, balls>>

(* ----------------------------- complete_match -------------------------- *)
\* UPDATE ... WHERE id = ? touches no row when the match does not exist.
complete_match(match_id, winner) ==
    /\ matches' = [k \in DOMAIN matches |->
            IF k = match_id
            THEN [matches[k] EXCEPT !.status = "completed", !.winner = winner]
            ELSE matches[k]]
    /\ response' = Response("complete_match", match_id, 200, "Match completed")
    /\ UNCHANGED <<innings, batsmen, bowlers, balls>>

(* ------------------------------- get_match ----------------------------- *)
\* SELECT * FROM balls WHERE inning_id = ? ORDER BY over_number, ball_number:
\* the orders in which the innings' delivery ids can be returned.  Rows with
\* equal (over_number, ball_number) come in an order SQLite leaves unspecified.
BallOrderLeq(a, b) ==
    \/ a.over_number < b.over_number
    \/ a.over_number = b.over_number /\ a.ball_number <= b.ball_number

get_match_balls(inning_id) ==
    LET ids == {k \in DOMAIN balls : balls[k].inning_id = inning_id}
        n == Cardinality(ids)
    IN  {ord \in [1 .. n -> ids] :
            /\ \A p \in 1 .. n, q \in 1 .. n : p # q => ord[p] # ord[q]
            /\ \A p \in 1 .. n, q \in 1 .. n :
                  p < q => BallOrderLeq(balls[ord[p]], balls[ord[q]])}

(* ------------------- handlers, statement by statement ------------------ *)
\* add_ball: inning = SELECT * FROM innings WHERE id = ?
add_ball_select_inning(w, inning_id, ball) ==
    /\ calls[w].pc = "idle"
    /\ calls' = [calls EXCEPT ![w] =
          Call("select_striker", inning_id, ball,
               IF inning_id \in DOMAIN innings
               THEN <<innings[inning_id].total_balls>> ELSE <<>>,
               0, 0, 0, 0)]
    /\ UNCHANGED <<db, response>>

\* add_ball: striker = SELECT ... AND is_striker = 1; if not striker: 400
add_ball_select_striker(w) ==
    /\ calls[w].pc = "select_striker"
    /\ IF Strikers(calls[w].id) = {}
       THEN /\ response' = Response("add_ball", calls[w].id, 400,
                                    "No striker batsman found")
            /\ calls' = [calls EXCEPT ![w] = Idle]
       ELSE /\ \E striker \in Strikers(calls[w].id) :
                 calls' = [calls EXCEPT ![w].pc = "select_bowler",
                                        ![w].striker = striker]
            /\ UNCHANGED response
    /\ UNCHANGED db

\* add_ball: bowler = SELECT ... AND is_current = 1; if not bowler: 400;
\* total_balls = inning['total_balls']
add_ball_select_bowler(w) ==
    /\ calls[w].pc = "select_bowler"
    /\ IF CurrentBowlers(calls[w].id) = {}
       THEN /\ response' = Response("add_ball", calls[w].id, 400,
                                    "No current bowler found")
            /\ calls' = [calls EXCEPT ![w] = Idle]
       ELSE IF calls[w].inning = <<>>
       THEN /\ response' = Response("add_ball", calls[w].id, 500,
                                    "Internal Server Error")
            /\ calls' = [calls EXCEPT ![w] = Idle]
       ELSE /\ \E bowler \in CurrentBowlers(calls[w].id) :
                 calls' = [calls EXCEPT ![w].pc = "commit",
                                        ![w].bowler = bowler,
                                        ![w].bowler_balls = bowlers[bowler].balls]
            /\ UNCHANGED response
    /\ UNCHANGED db

\* add_ball: the INSERT, the UPDATEs and conn.commit().  over_number,
\* ball_number and new_balls come from the rows fetched earlier; every
\* "SET x = x + ?" works on the row as it is now.
add_ball_commit(w) ==
    /\ calls[w].pc = "commit"
    /\ LET c == calls[w]
           total_balls == c.inning[1]
           fetched == [bowlers[c.bowler] EXCEPT !.balls = c.bowler_balls]
       IN  /\ balls' = Append(balls,
                  BallRow(c.id, OverNumber(total_balls), BallNumber(total_balls),
                          c.ball, c.striker, c.bowler))
           /\ batsmen' = [batsmen EXCEPT
                  ![c.striker] = StrikerAfterBall(batsmen[c.striker], c.ball)]
           /\ bowlers' = [bowlers EXCEPT
                  ![c.bowler] = [BowlerAfterBall(bowlers[c.bowler], c.ball) EXCEPT
                                    !.overs = BowlerAfterBall(fetched, c.ball).overs]]
           /\ innings' = [innings EXCEPT
                  ![c.id] = InningAfterBall(innings[c.id], c.ball)]
           /\ response' = Response("add_ball", c.id, 200,
                                   "Ball recorded successfully")
    /\ calls' = [calls EXCEPT ![w] = Idle]
    /\ UNCHANGED matches

\* toggle_striker: batsman = SELECT * FROM batsmen WHERE id = ?; 404 if none
toggle_striker_select(w, batsman_id) ==
    /\ calls[w].pc = "idle"
    /\ IF batsman_id \notin DOMAIN batsmen
       THEN /\ response' = Response("toggle_striker", batsman_id, 404,
                                    "Batsman not found")
            /\ UNCHANGED calls
       ELSE /\ calls' = [calls EXCEPT ![w] =
                  Call("set_striker", batsman_id, NoBall, <<>>,
                       batsmen[batsman_id].inning_id, 0, 0, 0)]
            /\ UNCHANGED response
    /\ UNCHANGED db

toggle_striker_commit_KeepsOthers(w) ==
    /\ calls[w].pc = "set_striker"
    /\ batsmen' = [batsmen EXCEPT ![calls[w].id].is_striker = TRUE]
    /\ response' = Response("toggle_striker", calls[w].id, 200, "Striker updated")
    /\ calls' = [calls EXCEPT ![w] = Idle]
    /\ UNCHANGED <<matches, innings, bowlers, balls>>

\* toggle_striker: the two UPDATEs and conn.commit()
toggle_striker_commit(w) ==
    /\ calls[w].pc = "set_striker"
    /\ batsmen' = [ClearStrikers(calls[w].inning_id) EXCEPT
                      ![calls[w].id].is_striker = TRUE]
    /\ response' = Response("toggle_striker", calls[w].id, 200, "Striker updated")
    /\ calls' = [calls EXCEPT ![w] = Idle]
    /\ UNCHANGED <<matches, innings, bowlers, balls>>

(* ------------------------------ specification -------------------------- *)
\* Spec: every endpoint, called with arbitrary identifiers.
CreateMatch ==
    /\ Len(matches) < MaxMatches
    /\ \E team1 \in Team1s, team2 \in Team2s, overs \in OversChoices :
          create_match(team1, team2, overs)
    /\ UNCHANGED calls

AddBatsman ==
    /\ Len(batsmen) < MaxBatsmen
    /\ \E inning_id \in InningIds, name \in Names, is_striker \in BOOLEAN :
          add_batsman(inning_id, name, is_striker)
    /\ UNCHANGED calls

AddBowler ==
    /\ Len(bowlers) < MaxBowlers
    /\ \E inning_id \in InningIds, name \in Names : add_bowler(inning_id, name)
    /\ UNCHANGED calls

AddBall ==
    /\ Len(balls) < MaxBalls
    /\ \E inning_id \in InningIds, ball \in SampleBalls : add_ball(inning_id, ball)
    /\ UNCHANGED calls

ToggleStriker ==
    /\ \E batsman_id \in BatsmanIds : toggle_striker(batsman_id)
    /\ UNCHANGED calls

NextInning ==
    /\ \E match_id \in MatchIds : next_inning(match_id)
    /\ UNCHANGED calls

CompleteMatch ==
    /\ \E match_id \in MatchIds, winner \in Winners :
          complete_match(match_id, winner)
    /\ UNCHANGED calls

Next ==
    \/ CreateMatch
    \/ AddBatsman
    \/ AddBowler
    \/ AddBall
    \/ ToggleStriker
    \/ NextInning
    \/ CompleteMatch

Spec == Init /\ [][Next]_vars

\* SpecScore: the scoring of one innings (the first innings of the first
\* match), every delivery outcome of BallUpdate.
ScoreBatsman ==
    /\ Len(batsmen) < MaxBatsmen
    /\ \E name \in Names, is_striker \in BOOLEAN : add_batsman(1, name, is_striker)
    /\ UNCHANGED calls

ScoreBowler ==
    /\ Len(bowlers) < MaxBowlers
    /\ \E name \in Names : add_bowler(1, name)
    /\ UNCHANGED calls

ScoreBall ==
    /\ Len(balls) < MaxBalls
    /\ \E ball \in BallUpdate : add_ball(1, ball)
    /\ UNCHANGED calls

ScoreStriker ==
    /\ \E batsman_id \in DOMAIN batsmen : toggle_striker(batsman_id)
    /\ UNCHANGED calls

NextScore ==
    \/ CreateMatch
    \/ ScoreBatsman
    \/ ScoreBowler
    \/ ScoreBall
    \/ ScoreStriker

SpecScore == Init /\ [][NextScore]_vars

\* SpecOver: one innings bowled past the end of its first over.
OverBall ==
    /\ Len(balls) < MaxOverBalls
    /\ \E ball \in OverBalls : add_ball(1, ball)
    /\ UNCHANGED calls

NextOver ==
    \/ CreateMatch
    \/ ScoreBatsman
    \/ ScoreBowler
    \/ OverBall
    \/ ScoreStriker

SpecOver == Init /\ [][NextOver]_vars

\* SpecWorkers: the deliveries of one innings, served by several workers.
\* add_batsman and add_bowler start with a write, so each is one step.
WorkerBalls == {ball \in OverBalls : ~ball.is_extra}

InFlightBalls ==
    {w \in Workers : calls[w].pc \in {"select_striker", "select_bowler", "commit"}}

BallSelectInning ==
    /\ Len(balls) + Cardinality(InFlightBalls) < MaxWorkerBalls
    /\ \E w \in Workers, ball \in WorkerBalls : add_ball_select_inning(w, 1, ball)

BallSelectStriker == \E w \in Workers : add_ball_select_striker(w)

BallSelectBowler == \E w \in Workers : add_ball_select_bowler(w)

BallCommit == \E w \in Workers : add_ball_commit(w)

NextWorkers ==
    \/ CreateMatch
    \/ ScoreBatsman
    \/ ScoreBowler
    \/ BallSelectInning
    \/ BallSelectStriker
    \/ BallSelectBowler
    \/ BallCommit

SpecWorkers == Init /\ [][NextWorkers]_vars

\* SpecStrikers: the striker and current-bowler calls, served by several
\* workers, on whatever innings and batsman the caller names.
StrikerSelect ==
    \E w \in Workers, batsman_id \in BatsmanIds : toggle_striker_select(w, batsman_id)

StrikerCommit == \E w \in Workers : toggle_striker_commit(w)

NextStrikers ==
    \/ CreateMatch
    \/ AddBatsman
    \/ AddBowler
    \/ StrikerSelect
    \/ StrikerCommit

SpecStrikers == Init /\ [][NextStrikers]_vars

(***************************************************************************)
(*                               Properties                                *)
(***************************************************************************)
RECURSIVE Sum(_, _)
Sum(f, S) ==
    IF S = {} THEN 0
    ELSE LET k == CHOOSE x \in S : TRUE IN f[k] + Sum(f, S \ {k})

BallsOf(i) == {k \in DOMAIN balls : balls[k].inning_id = i}
BatsmenOf(i) == {k \in DOMAIN batsmen : batsmen[k].inning_id = i}
BowlersOf(i) == {k \in DOMAIN bowlers : bowlers[k].inning_id = i}

\* A step that records a delivery: only add_ball appends to the log.
Delivered == Len(balls') = Len(balls) + 1
NewBall == balls'[Len(balls')]

IsWideOrNoBall(r) == r.extra_type \in {"wide", "nb"}
IsByeOrLegBye(r) == r.extra_type \in {"b", "lb"}
IsLegal(r) == ~r.is_extra \/ IsByeOrLegBye(r)
\* is_extra is set exactly when an extra type is given
IsConsistent(r) == r.is_extra <=> r.extra_type # None

(* C1 as stated: in every innings total_balls is the number of its delivery
   records whose extra_type is neither wide nor no-ball, whatever combination
   of is_extra and extra_type was submitted.  Violated: a delivery with
   is_extra = false and extra_type = wide is counted, one with is_extra = true
   and no extra_type is not. *)
C1_TotalBallsCountsNonWide ==
    \A i \in DOMAIN innings :
        innings[i].total_balls =
            Cardinality({k \in BallsOf(i) : ~IsWideOrNoBall(balls[k])})

(* C1 amended: in every innings all of whose delivery records have is_extra
   set exactly when an extra type is given, total_balls is the number of its
   delivery records whose extra_type is neither wide nor no-ball. *)
C1_TotalBallsCountsNonWide_Consistent ==
    \A i \in DOMAIN innings :
        (\A k \in BallsOf(i) : IsConsistent(balls[k])) =>
            innings[i].total_balls =
                Cardinality({k \in BallsOf(i) : ~IsWideOrNoBall(balls[k])})

C1_Witness ==
    /\ Len(balls) = 2
    /\ \A k \in DOMAIN balls : IsConsistent(balls[k]) /\ balls[k].inning_id = 1
    /\ balls[1].extra_type = "nb"
    /\ balls[2].extra_type = "lb"
    /\ innings[1].total_balls = 1

(* C2: a delivery that is not an extra, or is a bye or leg-bye, adds exactly 1
   to the innings' total_balls; a wide or no-ball extra leaves total_balls, the
   bowler's balls and the striker's balls unchanged; and always total_balls is
   the number of the innings' delivery records that are not extras or are
   byes/leg-byes. *)
C2_LegalDeliveryRule ==
    /\ [](\A i \in DOMAIN innings :
            innings[i].total_balls =
                Cardinality({k \in BallsOf(i) : IsLegal(balls[k])}))
    /\ [][Delivered =>
            LET r == NewBall
                i == r.inning_id
            IN  /\ IsLegal(r) =>
                     innings'[i].total_balls = innings[i].total_balls + 1
                /\ (r.is_extra /\ IsWideOrNoBall(r)) =>
                     /\ innings'[i].total_balls = innings[i].total_balls
                     /\ bowlers'[r.bowler_id].balls = bowlers[r.bowler_id].balls
                     /\ batsmen'[r.batsman_id].balls = batsmen[r.batsman_id].balls
       ]_vars

C2_Witness ==
    /\ Len(balls) = 2
    /\ balls[1].is_extra /\ balls[1].extra_type = "wide"
    /\ balls[2].is_extra /\ balls[2].extra_type = "b"
    /\ innings[1].total_balls = 1
    /\ bowlers[balls[1].bowler_id].balls = 1

(* C3: every delivery adds 1 to the striker's balls, the bowler's balls and
   the innings' total_balls together, or to none of them; so in every innings
   total_balls = sum of its batsmen's balls = sum of its bowlers' balls. *)
C3_CountersInLockstep ==
    /\ [](\A i \in DOMAIN innings :
            /\ innings[i].total_balls =
                 Sum([k \in DOMAIN batsmen |-> batsmen[k].balls], BatsmenOf(i))
            /\ innings[i].total_balls =
                 Sum([k \in DOMAIN bowlers |-> bowlers[k].balls], BowlersOf(i)))
    /\ [][Delivered =>
            LET r == NewBall
                d == innings'[r.inning_id].total_balls
                       - innings[r.inning_id].total_balls
            IN  /\ d \in {0, 1}
                /\ batsmen'[r.batsman_id].balls = batsmen[r.batsman_id].balls + d
                /\ bowlers'[r.bowler_id].balls = bowlers[r.bowler_id].balls + d
       ]_vars

C3_Witness ==
    /\ Len(balls) = 2
    /\ balls[1].inning_id = 1 /\ balls[2].inning_id = 1
    /\ balls[1].batsman_id # balls[2].batsman_id
    /\ balls[1].bowler_id # balls[2].bowler_id
    /\ innings[1].total_balls = 2
    /\ \A k \in DOMAIN batsmen : batsmen[k].balls = 1
    /\ \A k \in DOMAIN bowlers : bowlers[k].balls = 1

(* C4: at every moment each innings has at most one batsman with
   is_striker set, whatever add_batsman, toggle_striker and add_ball calls
   were made. *)
C4_AtMostOneStriker ==
    \A k1 \in DOMAIN batsmen, k2 \in DOMAIN batsmen :
        (/\ batsmen[k1].inning_id = batsmen[k2].inning_id
         /\ batsmen[k1].is_striker
         /\ batsmen[k2].is_striker) => k1 = k2

C4_Witness ==
    /\ Len(batsmen) = 2
    /\ batsmen[1].inning_id = batsmen[2].inning_id
    /\ batsmen[1].is_striker /\ ~batsmen[2].is_striker
    /\ batsmen[2].balls = 1
    /\ response.op = "toggle_striker" /\ response.status = 200

(* C5: at every moment each innings has at most one bowler with is_current
   set; and right after add_bowler(inning_id, name) the new bowler is the only
   current bowler of that innings, while the bowlers of other innings are as
   they were. *)
C5_NewBowlerIsSoleCurrent ==
    /\ [](\A k1 \in DOMAIN bowlers, k2 \in DOMAIN bowlers :
            (/\ bowlers[k1].inning_id = bowlers[k2].inning_id
             /\ bowlers[k1].is_current
             /\ bowlers[k2].is_current) => k1 = k2)
    /\ [][Len(bowlers') = Len(bowlers) + 1 =>
            LET new == Len(bowlers')
                i == response'.id
            IN  /\ response'.op = "add_bowler"
                /\ bowlers'[new].inning_id = i
                /\ bowlers'[new].is_current
                /\ \A k \in DOMAIN bowlers :
                      IF bowlers[k].inning_id = i
                      THEN ~bowlers'[k].is_current
                      ELSE bowlers'[k] = bowlers[k]
       ]_vars

C5_Witness ==
    /\ Len(bowlers) = 2
    /\ bowlers[1].inning_id = bowlers[2].inning_id
    /\ ~bowlers[1].is_current /\ bowlers[2].is_current
    /\ bowlers[1].balls = 1
    /\ response.op = "add_bowler"

(* C6: a delivery that is not an extra, with run value r, adds exactly r to
   the striker's runs, 1 to fours iff r = 4 and 1 to sixes iff r = 6; no
   delivery adds to both fours and sixes.  From a fresh innings with one
   striker and one bowler, the delivery {runs: 4} gives striker runs 4,
   fours 1, balls 1, innings total_runs 4, total_balls 1, bowler
   runs_given 4, balls 1, overs 0. *)
C6_RunsFoursSixes ==
    [][Delivered =>
        LET r == NewBall
            s == batsmen[r.batsman_id]
            s2 == batsmen'[r.batsman_id]
            w2 == bowlers'[r.bowler_id]
            n2 == innings'[r.inning_id]
            fresh ==
                /\ Len(batsmen) = 1 /\ Len(bowlers) = 1 /\ balls = <<>>
                /\ s.runs = 0 /\ s.balls = 0 /\ s.fours = 0 /\ s.sixes = 0
                /\ bowlers[1].balls = 0 /\ bowlers[1].runs_given = 0
                /\ innings[1].total_runs = 0 /\ innings[1].total_balls = 0
        IN  /\ ~(s2.fours > s.fours /\ s2.sixes > s.sixes)
            /\ ~r.is_extra =>
                 /\ s2.runs = s.runs + r.runs
                 /\ s2.fours = s.fours + (IF r.runs = 4 THEN 1 ELSE 0)
                 /\ s2.sixes = s.sixes + (IF r.runs = 6 THEN 1 ELSE 0)
            /\ (/\ fresh
                /\ r.runs = 4 /\ ~r.is_wicket /\ ~r.is_extra
                /\ r.extra_type = None) =>
                 /\ s2.runs = 4 /\ s2.fours = 1 /\ s2.balls = 1
                 /\ n2.total_runs = 4 /\ n2.total_balls = 1
                 /\ w2.runs_given = 4 /\ w2.balls = 1 /\ w2.overs = 0
    ]_vars

C6_Witness ==
    /\ Len(balls) = 2 /\ Len(batsmen) = 1
    /\ balls[1].runs = 4 /\ ~balls[1].is_extra
    /\ balls[2].runs = 6 /\ ~balls[2].is_extra
    /\ batsmen[1].runs = 10 /\ batsmen[1].fours = 1 /\ batsmen[1].sixes = 1
    /\ innings[1].total_runs = 10

(* C7: a delivery that is an extra, with run value r and any extra type,
   leaves the striker's runs, fours and sixes unchanged and adds exactly r to
   the innings' extras; every delivery, extra or not, adds exactly r to the
   innings' total_runs and to the current bowler's runs_given; a delivery
   that is not an extra leaves extras unchanged. *)
C7_ExtrasAndTotals ==
    [][Delivered =>
        LET r == NewBall
            s == batsmen[r.batsman_id]
            s2 == batsmen'[r.batsman_id]
            w == bowlers[r.bowler_id]
            w2 == bowlers'[r.bowler_id]
            n == innings[r.inning_id]
            n2 == innings'[r.inning_id]
        IN  /\ n2.total_runs = n.total_runs + r.runs
            /\ w2.runs_given = w.runs_given + r.runs
            /\ IF r.is_extra
               THEN /\ n2.extras = n.extras + r.runs
                    /\ s2.runs = s.runs
                    /\ s2.fours = s.fours
                    /\ s2.sixes = s.sixes
               ELSE n2.extras = n.extras
    ]_vars

C7_Witness ==
    /\ Len(balls) = 2
    /\ balls[1].runs = 4 /\ ~balls[1].is_extra
    /\ balls[2].runs = 1 /\ balls[2].is_extra /\ balls[2].extra_type = None
    /\ innings[1].total_runs = 5 /\ innings[1].extras = 1
    /\ bowlers[balls[2].bowler_id].runs_given = 5
    /\ batsmen[balls[2].batsman_id].runs = 4

(* C8: a delivery with is_wicket set, extra or not, leaves the striker with
   is_out = true and out_type = the submitted wicket_type, adds exactly 1 to
   the current bowler's wickets, and changes no batsman's is_striker flag (the
   dismissed batsman stays the striker); a delivery without is_wicket leaves
   is_out, out_type and the bowler's wickets unchanged. *)
C8_WicketHandling ==
    [][Delivered =>
        LET r == NewBall
            s == batsmen[r.batsman_id]
            s2 == batsmen'[r.batsman_id]
            w == bowlers[r.bowler_id]
            w2 == bowlers'[r.bowler_id]
            Submitted(wt) ==
                [runs |-> r.runs, is_wicket |-> r.is_wicket, wicket_type |-> wt,
                 is_extra |-> r.is_extra, extra_type |-> r.extra_type]
        IN  /\ \E wt \in WicketTypes : add_ball(r.inning_id, Submitted(wt))
            /\ \A wt \in WicketTypes :
                  add_ball(r.inning_id, Submitted(wt)) =>
                     IF r.is_wicket
                     THEN /\ s2.is_out /\ s2.out_type = wt
                          /\ w2.wickets = w.wickets + 1
                          /\ s.is_striker /\ s2.is_striker
                          /\ \A k \in DOMAIN batsmen :
                                batsmen'[k].is_striker = batsmen[k].is_striker
                     ELSE /\ s2.is_out = s.is_out
                          /\ s2.out_type = s.out_type
                          /\ w2.wickets = w.wickets
    ]_vars

C8_Witness ==
    /\ Len(balls) = 2 /\ Len(batsmen) = 2
    /\ balls[1].is_wicket /\ balls[1].is_extra /\ balls[1].extra_type = "wide"
    /\ ~balls[2].is_wicket
    /\ balls[1].batsman_id = balls[2].batsman_id
    /\ batsmen[balls[1].batsman_id].is_out
    /\ batsmen[balls[1].batsman_id].out_type = "bowled"
    /\ batsmen[balls[1].batsman_id].is_striker
    /\ bowlers[balls[1].bowler_id].wickets = 1

HasStriker(i) ==
    \E k \in DOMAIN batsmen : batsmen[k].inning_id = i /\ batsmen[k].is_striker

HasCurrentBowler(i) ==
    \E k \in DOMAIN bowlers : bowlers[k].inning_id = i /\ bowlers[k].is_current

(* C9: add_ball on an innings with no striker answers 400 "No striker batsman
   found"; with a striker but no current bowler it answers 400 "No current
   bowler found"; and any add_ball that does not answer 200 leaves every
   table as it was (one that answers 200 appended a delivery). *)
C9_FailedDeliveryChangesNothing ==
    [][response'.op = "add_ball" =>
        LET i == response'.id
        IN  /\ ~HasStriker(i) =>
                 /\ response'.status = 400
                 /\ response'.detail = "No striker batsman found"
            /\ (HasStriker(i) /\ ~HasCurrentBowler(i)) =>
                 /\ response'.status = 400
                 /\ response'.detail = "No current bowler found"
            /\ response'.status # 200 => UNCHANGED db
            /\ response'.status = 200 => Delivered
    ]_vars

C9_Witness ==
    /\ response.op = "add_ball" /\ response.id = 2
    /\ response.status = 400
    /\ response.detail = "No current bowler found"
    /\ HasStriker(2) /\ ~HasCurrentBowler(2)
    /\ Len(innings) = 2
    /\ Len(balls) = 1

(* C10: every delivery record carries over_number = floor(tb / 6) and
   ball_number = tb mod 6, tb being the innings' total_balls just before the
   delivery, and the ids of the batsman who was striker and of the bowler who
   was current at that moment; so ball_number is always within 0..5. *)
C10_DeliveryAddress ==
    /\ [](\A k \in DOMAIN balls :
            balls[k].ball_number \in 0 .. 5 /\ balls[k].over_number >= 0)
    /\ [][Delivered =>
            LET r == NewBall
                tb == innings[r.inning_id].total_balls
            IN  /\ r.over_number * 6 <= tb /\ tb < (r.over_number + 1) * 6
                /\ r.ball_number = tb - r.over_number * 6
                /\ r.batsman_id \in DOMAIN batsmen
                /\ batsmen[r.batsman_id].inning_id = r.inning_id
                /\ batsmen[r.batsman_id].is_striker
                /\ r.bowler_id \in DOMAIN bowlers
                /\ bowlers[r.bowler_id].inning_id = r.inning_id
                /\ bowlers[r.bowler_id].is_current
       ]_vars

C10_Witness ==
    /\ Len(balls) = 7
    /\ balls[6].over_number = 0 /\ balls[6].ball_number = 5
    /\ balls[7].over_number = 1 /\ balls[7].ball_number = 0
    /\ innings[1].total_balls = 7
    /\ balls[1].bowler_id # balls[7].bowler_id
    /\ balls[1].batsman_id # balls[7].batsman_id

(* C11: after any sequence of calls made one at a time every bowler has
   overs = floor(balls / 6), balls being the bowler's running count of legal
   deliveries; six legal deliveries in a row by one bowler give balls = 6 and
   overs = 1; a wide or no-ball changes neither field. *)
C11_OversFromBalls ==
    /\ [](\A k \in DOMAIN bowlers :
            /\ bowlers[k].overs * 6 <= bowlers[k].balls
            /\ bowlers[k].balls < (bowlers[k].overs + 1) * 6)
    /\ [][Delivered =>
            LET r == NewBall
                w == bowlers[r.bowler_id]
                w2 == bowlers'[r.bowler_id]
            IN  /\ (r.is_extra /\ IsWideOrNoBall(r)) =>
                     w2.balls = w.balls /\ w2.overs = w.overs
                /\ (/\ Len(balls) = 5
                    /\ \A k \in DOMAIN balls :
                          IsLegal(balls[k]) /\ balls[k].bowler_id = r.bowler_id
                    /\ IsLegal(r)) =>
                     w2.balls = 6 /\ w2.overs = 1
       ]_vars

C11_Witness ==
    /\ Len(balls) = 7
    /\ \A k \in 1 .. 6 : IsLegal(balls[k]) /\ balls[k].bowler_id = 1
    /\ balls[7].is_extra /\ balls[7].extra_type = "wide"
    /\ balls[7].bowler_id = 1
    /\ bowlers[1].balls = 6 /\ bowlers[1].overs = 1

InningsOf(m) == {k \in DOMAIN innings : innings[k].match_id = m}

(* C12: next_inning on a match whose current_inning is already 2 or more
   answers 400 and changes nothing; on a match with current_inning = 1 it
   appends innings number 2 with batting_team = the match's team2 and
   bowling_team = team1 (innings 1 swapped), all counters 0, and sets
   current_inning = 2.  So every match always has one or two innings, numbered
   1..current_inning without repetition. *)
C12_NextInning ==
    /\ [](\A m \in DOMAIN matches :
            /\ Cardinality(InningsOf(m)) \in {1, 2}
            /\ Cardinality(InningsOf(m)) = matches[m].current_inning
            /\ {innings[k].inning_number : k \in InningsOf(m)} =
                  1 .. matches[m].current_inning)
    /\ [][(response'.op = "next_inning" /\ response'.id \in DOMAIN matches) =>
            LET m == response'.id
                first == CHOOSE k \in InningsOf(m) : innings[k].inning_number = 1
                new == innings'[Len(innings')]
            IN  IF matches[m].current_inning >= 2
                THEN response'.status = 400 /\ UNCHANGED db
                ELSE /\ response'.status = 200
                     /\ Len(innings') = Len(innings) + 1
                     /\ \A k \in DOMAIN innings : innings'[k] = innings[k]
                     /\ new.match_id = m /\ new.inning_number = 2
                     /\ new.batting_team = matches[m].team2
                     /\ new.bowling_team = matches[m].team1
                     /\ new.batting_team = innings[first].bowling_team
                     /\ new.bowling_team = innings[first].batting_team
                     /\ new.total_runs = 0 /\ new.total_wickets = 0
                     /\ new.total_balls = 0 /\ new.extras = 0
                     /\ matches'[m].current_inning = 2
                     /\ UNCHANGED <<batsmen, bowlers, balls>>
       ]_vars

C12_Witness ==
    /\ response.op = "next_inning" /\ response.status = 400
    /\ Len(matches) = 1 /\ matches[1].current_inning = 2
    /\ Len(innings) = 2
    /\ innings[2].inning_number = 2
    /\ innings[2].batting_team = "B" /\ innings[2].bowling_team = "A"
    /\ matches[1].status = "completed"

(* C13: toggle_striker on an existing batsman leaves that batsman the only
   one of its innings with is_striker set (also when it is already out), and
   leaves the is_striker flags of every other innings' batsmen and all other
   batsman fields and tables as they were; on a batsman id that does not exist
   it answers 404 and changes nothing. *)
C13_SetStriker ==
    [][response'.op = "toggle_striker" =>
        LET b == response'.id
        IN  IF b \in DOMAIN batsmen
            THEN /\ response'.status = 200
                 /\ DOMAIN batsmen' = DOMAIN batsmen
                 /\ \A k \in DOMAIN batsmen :
                       /\ batsmen'[k].is_striker =
                            IF batsmen[k].inning_id = batsmen[b].inning_id
                            THEN k = b
                            ELSE batsmen[k].is_striker
                       /\ [batsmen'[k] EXCEPT !.is_striker = FALSE] =
                            [batsmen[k] EXCEPT !.is_striker = FALSE]
                 /\ UNCHANGED <<matches, innings, bowlers, balls>>
            ELSE response'.status = 404 /\ UNCHANGED db
    ]_vars

C13_Witness ==
    /\ response.op = "toggle_striker" /\ response.status = 200
    /\ response.id = 1
    /\ Len(batsmen) = 2
    /\ batsmen[1].inning_id = batsmen[2].inning_id
    /\ batsmen[1].is_out /\ batsmen[1].is_striker
    /\ ~batsmen[2].is_striker
    /\ batsmen[2].balls = 1

(* C14: whatever identifiers the calls are given, every batsman, bowler and
   delivery record refers to an innings that exists and every innings to a
   match that exists; add_batsman, add_bowler and add_ball on an innings id
   that does not exist answer 404 and create no record.  Violated: add_batsman
   and add_bowler insert the row and answer 200, and add_ball answers 400 or
   500. *)
C14_Ownership ==
    /\ [](/\ \A k \in DOMAIN batsmen : batsmen[k].inning_id \in DOMAIN innings
          /\ \A k \in DOMAIN bowlers : bowlers[k].inning_id \in DOMAIN innings
          /\ \A k \in DOMAIN balls : balls[k].inning_id \in DOMAIN innings
          /\ \A k \in DOMAIN innings : innings[k].match_id \in DOMAIN matches)
    /\ [][(/\ response'.op \in {"add_batsman", "add_bowler", "add_ball"}
           /\ response'.id \notin DOMAIN innings) =>
              response'.status = 404 /\ UNCHANGED db
       ]_vars

(* C15: in every step, for every delivery outcome add_ball accepts, no
   innings' total_runs, total_wickets, total_balls or extras decreases, and a
   step that records no delivery leaves every existing innings row as it was.
   Violated: runs is any integer, and a delivery with runs = -1 lowers
   total_runs (and extras, when it is an extra). *)
C15_CountersNeverDecrease ==
    [][\A i \in DOMAIN innings :
          /\ innings'[i].total_runs >= innings[i].total_runs
          /\ innings'[i].total_wickets >= innings[i].total_wickets
          /\ innings'[i].total_balls >= innings[i].total_balls
          /\ innings'[i].extras >= innings[i].extras
          /\ ~Delivered => innings'[i] = innings[i]
    ]_vars

(* C16: no step changes or removes a delivery record, every add_ball that
   answers 200 appends exactly one and nothing else appends; and the
   deliveries of an innings, ordered by (over_number, ball_number) as
   get_match returns them, come in the order they were inserted, also when
   wides and no-balls are among them.  Violated: a wide or no-ball does not
   advance total_balls, so the next delivery gets the same (over_number,
   ball_number) and the ORDER BY does not fix their order. *)
C16_LogAppendOnlyInOrder ==
    /\ [](\A i \in DOMAIN innings : \A ord \in get_match_balls(i) :
            \A p \in DOMAIN ord, q \in DOMAIN ord : p < q => ord[p] < ord[q])
    /\ [][/\ \A k \in DOMAIN balls :
                k \in DOMAIN balls' /\ balls'[k] = balls[k]
          /\ Len(balls') \in {Len(balls), Len(balls) + 1}
          /\ Delivered <=> (response'.op = "add_ball" /\ response'.status = 200)
       ]_vars

(* C17: two add_ball calls on the same innings that overlap in time leave
   the tables as some one-after-the-other run of the two would: once no
   call is in progress, no two legal deliveries of an innings have the same
   (over_number, ball_number), and every bowler has overs = balls \div 6.
   Violated: both calls fetch the innings and the bowler before either
   commits, so both compute the same address, and the later commit writes
   overs from the ball count it fetched. *)
AllCallsCompleted == \A w \in Workers : calls[w].pc = "idle"

C17_ConcurrentDeliveriesSerial ==
    AllCallsCompleted =>
       /\ \A j \in DOMAIN balls, k \in DOMAIN balls :
             (/\ j # k
              /\ balls[j].inning_id = balls[k].inning_id
              /\ IsLegal(balls[j]) /\ IsLegal(balls[k]))
             => <<balls[j].over_number, balls[j].ball_number>> #
                <<balls[k].over_number, balls[k].ball_number>>
       /\ \A k \in DOMAIN bowlers :
             bowlers[k].overs = bowlers[k].balls \div 6

(* C18: with add_batsman(is_striker = true), toggle_striker and add_bowler
   calls overlapping in time, every committed state has at most one
   striker and at most one current bowler per innings; a committed
   add_batsman(is_striker = true) or toggle_striker leaves its innings with
   a striker, a committed add_bowler leaves its innings with a current
   bowler, and no step of these calls takes an innings' striker or current
   bowler away without leaving another: once the calls have completed
   there is exactly one of each, never none. *)
StrikerCount(i) ==
    Cardinality({k \in DOMAIN batsmen :
                    batsmen[k].inning_id = i /\ batsmen[k].is_striker})

CurrentCount(i) ==
    Cardinality({k \in DOMAIN bowlers :
                    bowlers[k].inning_id = i /\ bowlers[k].is_current})

SetStrikerCommitted(w) ==
    calls[w].pc = "set_striker" /\ calls'[w].pc = "idle"

C18_ConcurrentStrikerAndBowler ==
    /\ [](\A i \in InningIds : StrikerCount(i) <= 1 /\ CurrentCount(i) <= 1)
    /\ [][/\ \A i \in InningIds :
                /\ StrikerCount(i) = 1 => StrikerCount(i)' = 1
                /\ CurrentCount(i) = 1 => CurrentCount(i)' = 1
          /\ (Len(batsmen') = Len(batsmen) + 1
                /\ batsmen'[Len(batsmen')].is_striker)
             => \A i \in {batsmen'[Len(batsmen')].inning_id} :
                   StrikerCount(i)' = 1
          /\ \A w \in Workers : SetStrikerCommitted(w) =>
                /\ batsmen'[calls[w].id].is_striker
                /\ \A i \in {batsmen[calls[w].id].inning_id} :
                      StrikerCount(i)' = 1
          /\ Len(bowlers') = Len(bowlers) + 1
             => /\ bowlers'[Len(bowlers')].is_current
                /\ \A i \in {bowlers'[Len(bowlers')].inning_id} :
                      CurrentCount(i)' = 1
       ]_vars

\* toggle_striker(2) committed while toggle_striker(1) on the same innings
\* had fetched its batsman and not yet written; two bowlers were added.
C18_Witness ==
    /\ response = Response("toggle_striker", 2, 200, "Striker updated")
    /\ calls[1].pc = "set_striker" /\ calls[1].id = 1
    /\ calls[2].pc = "idle"
    /\ Len(batsmen) = 2
    /\ batsmen[1].inning_id = batsmen[2].inning_id
    /\ batsmen[2].is_striker /\ ~batsmen[1].is_striker
    /\ Len(bowlers) = 2
    /\ bowlers[1].inning_id = bowlers[2].inning_id
    /\ bowlers[2].is_current /\ ~bowlers[1].is_current

(* C19: an add_ball that answers 200 on innings i changes the innings row
   of i, one batsman who was a striker of i, one bowler who was a current
   bowler of i, and appends one record to the log, for i; every other
   batsman and bowler, every row of every other innings, every earlier
   delivery record and every match row (status, winner, current_inning)
   stay as they were.  What a delivery on another innings reads and writes
   is therefore untouched, so deliveries on different innings commute. *)
C19_DeliveryFrame ==
    [][Delivered =>
         LET r == NewBall
             i == r.inning_id
         IN  /\ response'.op = "add_ball" /\ response'.id = i
             /\ matches' = matches
             /\ \A k \in DOMAIN balls : balls'[k] = balls[k]
             /\ DOMAIN innings' = DOMAIN innings
             /\ DOMAIN batsmen' = DOMAIN batsmen
             /\ DOMAIN bowlers' = DOMAIN bowlers
             /\ \A j \in DOMAIN innings : j # i => innings'[j] = innings[j]
             /\ r.batsman_id \in DOMAIN batsmen
             /\ batsmen[r.batsman_id].inning_id = i
             /\ batsmen[r.batsman_id].is_striker
             /\ \A k \in DOMAIN batsmen :
                   k # r.batsman_id => batsmen'[k] = batsmen[k]
             /\ r.bowler_id \in DOMAIN bowlers
             /\ bowlers[r.bowler_id].inning_id = i
             /\ bowlers[r.bowler_id].is_current
             /\ \A k \in DOMAIN bowlers :
                   k # r.bowler_id => bowlers'[k] = bowlers[k]
      ]_vars

\* One delivery on each of two innings; each innings has its own striker
\* and bowler and shows only its own delivery.
C19_Witness ==
    /\ response.op = "add_ball" /\ response.status = 200
    /\ Len(balls) = 2
    /\ balls[1].inning_id # balls[2].inning_id
    /\ balls[1].batsman_id # balls[2].batsman_id
    /\ balls[1].bowler_id # balls[2].bowler_id
    /\ \A k \in DOMAIN balls :
          /\ balls[k].inning_id \in DOMAIN innings
          /\ ~balls[k].is_extra
          /\ innings[balls[k].inning_id].total_runs = balls[k].runs
          /\ innings[balls[k].inning_id].total_balls = 1
          /\ batsmen[balls[k].batsman_id].runs = balls[k].runs
          /\ bowlers[balls[k].bowler_id].runs_given = balls[k].runs
    /\ \E m \in DOMAIN matches : matches[m].current_inning = 2

(* C20: with the calls executed one at a time, in every state and for every
   innings: total_runs = the sum of runs over its delivery records = the
   sum of runs_given over its bowlers = the sum of runs over its batsmen
   plus extras; extras = the sum of runs over its delivery records with
   is_extra set; total_wickets = the number of its delivery records with
   is_wicket set = the sum of wickets over its bowlers. *)
C20_LedgerIsFoldOfLog ==
    \A i \in DOMAIN innings :
       LET logRuns == Sum([k \in DOMAIN balls |-> balls[k].runs], BallsOf(i))
           logExtras == Sum([k \in DOMAIN balls |-> balls[k].runs],
                            {k \in BallsOf(i) : balls[k].is_extra})
           logWickets == Cardinality({k \in BallsOf(i) : balls[k].is_wicket})
           batRuns == Sum([k \in DOMAIN batsmen |-> batsmen[k].runs], BatsmenOf(i))
           bowlRuns == Sum([k \in DOMAIN bowlers |-> bowlers[k].runs_given],
                           BowlersOf(i))
           bowlWickets == Sum([k \in DOMAIN bowlers |-> bowlers[k].wickets],
                              BowlersOf(i))
       IN  /\ innings[i].total_runs = logRuns
           /\ innings[i].total_runs = bowlRuns
           /\ innings[i].total_runs = batRuns + innings[i].extras
           /\ innings[i].extras = logExtras
           /\ innings[i].total_wickets = logWickets
           /\ innings[i].total_wickets = bowlWickets

\* A bye off one bowler and a four with a wicket off another, to two
\* different batsmen of the same innings.
C20_Witness ==
    /\ Len(balls) = 2
    /\ balls[1].inning_id = balls[2].inning_id
    /\ balls[1].inning_id \in DOMAIN innings
    /\ balls[1].is_extra /\ balls[1].extra_type = "b" /\ balls[1].runs = 1
    /\ ~balls[2].is_extra /\ balls[2].is_wicket /\ balls[2].runs = 4
    /\ balls[1].bowler_id # balls[2].bowler_id
    /\ balls[1].batsman_id # balls[2].batsman_id
    /\ innings[balls[1].inning_id].total_runs = 5
    /\ innings[balls[1].inning_id].extras = 1
    /\ innings[balls[1].inning_id].total_wickets = 1

====
